---- MODULE Spec2Model ----
(***************************************************************************)
(* The RESCAL and TransR scoring models of poem.models.unimodal.            *)
(*                                                                         *)
(* One model object is described: `model` says which class it is, the      *)
(* three table variables are its nn.Embedding weights (or None), and one   *)
(* action stands for each method.  Tensor entries are exact rationals      *)
(* <<numerator, denominator>>; torch's float rounding and the 1e-7 that    *)
(* renorm adds to a norm before dividing are not represented.  A square    *)
(* root is only ever taken of a rational square: inputs on which a norm    *)
(* that has to be divided by is irrational are outside the inputs the      *)
(* actions draw (the ...Defined predicates).                               *)
(***************************************************************************)
EXTENDS Integers, Sequences, FiniteSets, TLC

VARIABLES model, entity_embeddings, relation_embeddings, relation_projections,
          regularizer_updates, score_calls, last

vars == <<model, entity_embeddings, relation_embeddings, relation_projections,
          regularizer_updates, score_calls, last>>

\* an absent table (the field holds None); a table present has a row at least
None == <<>>

\* ------------------------------------------------------------------ bounds
\* rows in one batch
MaxBatch == 2
\* scoring calls made on a RESCAL model, and on a TransR model
MaxCalls == 2
MaxTransRCalls == 1

\* ------------------------------------------------- constructor parameters
num_entities == 2
num_relations == 1
embedding_dim == 2
relation_embedding_dim == 2
max_norm == 1
maxnorm == 1

\* ---------------------------------------------------------------- binders
\* F applied to the values of its arguments, each computed once
With(v, F(_)) == CHOOSE y \in {F(x) : x \in {v}} : TRUE
With2(u, v, F(_, _)) == CHOOSE y \in {F(p, q) : p \in {u}, q \in {v}} : TRUE
With3(u, v, w, F(_, _, _)) ==
    CHOOSE y \in {F(p, q, r) : p \in {u}, q \in {v}, r \in {w}} : TRUE

\* ------------------------------------------------------- exact rationals
Abs(x) == IF x < 0 THEN -x ELSE x
Max(a, b) == IF a >= b THEN a ELSE b

RECURSIVE GCD(_, _)
GCD(a, b) == IF b = 0 THEN a ELSE GCD(b, a % b)

\* the fraction n / d in lowest terms, the denominator positive
Reduce(n, d, g) ==
    IF d < 0 THEN <<(-n) \div g, (-d) \div g>> ELSE <<n \div g, d \div g>>
Frac(n, d) == Reduce(n, d, GCD(Abs(n), Abs(d)))

Zero == <<0, 1>>
One == <<1, 1>>
Num(n) == <<n, 1>>

\* sums and products cancel common factors before they multiply
AddOver(a, b, g) ==
    Frac(a[1] * (b[2] \div g) + b[1] * (a[2] \div g), (a[2] \div g) * b[2])
Add(a, b) == AddOver(a, b, GCD(a[2], b[2]))
Neg(a) == <<-a[1], a[2]>>
Sub(a, b) == Add(a, Neg(b))
MulOver(a, b, g, k) ==
    <<(a[1] \div g) * (b[1] \div k), (a[2] \div k) * (b[2] \div g)>>
Mul(a, b) ==
    IF a[1] = 0 \/ b[1] = 0 THEN <<0, 1>>
    ELSE MulOver(a, b, GCD(Abs(a[1]), b[2]), GCD(Abs(b[1]), a[2]))
Div(a, b) == Mul(a, IF b[1] < 0 THEN <<-b[2], -b[1]>> ELSE <<b[2], b[1]>>)
Le(a, b) == a[1] * b[2] <= b[1] * a[2]

\* the integer square root, by bisection
RECURSIVE SqrtSearch(_, _, _)
SqrtSearch(n, lo, hi) ==
    IF lo >= hi THEN lo
    ELSE With((lo + hi + 1) \div 2, LAMBDA mid :
             IF mid * mid <= n THEN SqrtSearch(n, mid, hi) ELSE SqrtSearch(n, lo, mid - 1))
ISqrt(n) == With(n, LAMBDA m : SqrtSearch(m, 0, IF m < 46340 THEN m ELSE 46340))
IsIntSquare(n) == With(ISqrt(n), LAMBDA r : r * r = n)
IsSquare(q) == With(q, LAMBDA p : IsIntSquare(p[1]) /\ IsIntSquare(p[2]))
Sqrt(q) == With(q, LAMBDA p : <<ISqrt(p[1]), ISqrt(p[2])>>)

RECURSIVE SumTo(_, _)
SumTo(s, n) == IF n = 0 THEN Zero ELSE Add(s[n], SumTo(s, n - 1))
SumSeq(s) == With(s, LAMBDA v : SumTo(v, Len(v)))

\* ------------------------------------------------------------ torch pieces
\* A tensor of rank 3 is a sequence of sequences of vectors, x[b][n][j];
\* ids are 1-based here (0-based in the source).
Squares(v) == With(v, LAMBDA x : [i \in 1..Len(x) |-> Mul(x[i], x[i])])
\* squared Euclidean norm of a vector
NormSq(v) == SumSeq(Squares(v))
Scale(v, c) == With2(v, c, LAMBDA x, k : [i \in 1..Len(x) |-> Mul(x[i], k)])
Column(batch, c) == With(batch, LAMBDA x : [i \in 1..Len(x) |-> x[i][c]])
VAdd(u, v) == With2(u, v, LAMBDA x, y : [j \in 1..Len(x) |-> Add(x[j], y[j])])
VSub(u, v) == With2(u, v, LAMBDA x, y : [j \in 1..Len(x) |-> Sub(x[j], y[j])])

\* nn.Embedding.forward without max_norm: gather the rows, in order
Embedding(W, ids) == With2(W, ids, LAMBDA w, x : [i \in 1..Len(x) |-> w[x[i]]])

\* nn.Embedding(max_norm=1).forward first renormalises, in place, every row
\* of the weight that is looked up and has norm above max_norm
RowDefined(v) ==
    With(NormSq(v), LAMBDA nsq : Le(nsq, Num(max_norm * max_norm)) \/ IsSquare(nsq))
ClipRow(v) ==
    With2(v, NormSq(v), LAMBDA x, nsq :
        IF Le(nsq, Num(max_norm * max_norm)) THEN x
        ELSE Scale(x, Div(Num(max_norm), Sqrt(nsq))))
\* every row of the weight is renormalised, looked up or not
embedding_renorm_every_row(W, ids) ==
    With(W, LAMBDA w : [e \in 1..Len(w) |-> ClipRow(w[e])])

embedding_renorm_(W, ids) ==
    With2(W, ids, LAMBDA w, x :
        [e \in 1..Len(w) |->
            IF \E i \in 1..Len(x) : x[i] = e THEN ClipRow(w[e]) ELSE w[e]])
LookupDefined(W, ids) ==
    With2(W, ids, LAMBDA w, x : \A i \in 1..Len(x) : RowDefined(w[x[i]]))

\* tensor.view(-1, rows, cols) of one flat row: row-major
View(v, rows, cols) ==
    With(v, LAMBDA x : [i \in 1..rows |-> [j \in 1..cols |-> x[(i - 1) * cols + j]]])

\* a @ m with the batch dimension of size 1 broadcast
Pick(x, b) == With(x, LAMBDA y : IF Len(y) = 1 THEN y[1] ELSE y[b])
Dot(a, m, n, j) == SumSeq(With2(a, m, LAMBDA x, y : [k \in 1..Len(y) |-> Mul(x[n][k], y[k][j])]))
MatMul2(a, m) ==
    With2(a, m, LAMBDA x, y :
        [n \in 1..Len(x) |-> [j \in 1..Len(y[1]) |-> Dot(x, y, n, j)]])
matmul(a, m) ==
    With2(a, m, LAMBDA x, y :
        [b \in 1..Max(Len(x), Len(y)) |-> MatMul2(Pick(x, b), Pick(y, b))])

\* torch.renorm(x, p=2, dim=-1, maxnorm=1.): each sub-tensor x[:, :, j] along
\* the last dimension whose 2-norm (taken over all the other dimensions) is
\* above maxnorm is rescaled to norm maxnorm
SubTensorSquares(x, b, j) ==
    With(x, LAMBDA y : [n \in 1..Len(y[b]) |-> Mul(y[b][n][j], y[b][n][j])])
SubTensorNormSq(x, j) ==
    SumSeq(With(x, LAMBDA y : [b \in 1..Len(y) |-> SumSeq(SubTensorSquares(y, b, j))]))
RenormFactor(nsq) ==
    With(nsq, LAMBDA q :
        IF Le(q, Num(maxnorm * maxnorm)) THEN One ELSE Div(Num(maxnorm), Sqrt(q)))
Rescale(x, f) ==
    With2(x, f, LAMBDA y, g :
        [b \in 1..Len(y) |-> [n \in 1..Len(y[b]) |->
            [j \in 1..Len(y[b][n]) |-> Mul(y[b][n][j], g[j])]]])
RenormFactors(x) ==
    With(x, LAMBDA y : [j \in 1..Len(y[1][1]) |-> RenormFactor(SubTensorNormSq(y, j))])
renorm(x) == With(x, LAMBDA y : Rescale(y, RenormFactors(y)))
RenormDefined(x) ==
    With(x, LAMBDA y : \A j \in 1..Len(y[1][1]) :
        With(SubTensorNormSq(y, j), LAMBDA q :
            Le(q, Num(maxnorm * maxnorm)) \/ IsSquare(q)))

\* functional.normalize(x, out=x) on a 2-d weight: every row v becomes
\* v / max(||v||, eps); a zero row stays zero
\* only a row longer than 1 is rescaled, as a max_norm clip would do
NormalizeRow_above_one(v) ==
    With2(v, NormSq(v), LAMBDA x, nsq :
        IF Le(nsq, One) THEN x ELSE Scale(x, Div(One, Sqrt(nsq))))

NormalizeRow(v) ==
    With2(v, NormSq(v), LAMBDA x, nsq :
        IF nsq = Zero THEN x ELSE Scale(x, Div(One, Sqrt(nsq))))
normalize(W) == With(W, LAMBDA w : [e \in 1..Len(w) |-> NormalizeRow(w[e])])
NormalizeDefined(W) == With(W, LAMBDA w : \A e \in 1..Len(w) : IsSquare(NormSq(w[e])))

\* ------------------------------------------------------------------ TransR
\* -torch.norm(h_bot + r - t_bot, dim=-1) ** 2 with h_bot and t_bot of shape
\* (b, 1 or n, k) and r of shape (b, k), the entity dimension broadcast
NegSquaredNorm(h_bot, r, t_bot) ==
    With3(h_bot, r, t_bot, LAMBDA h, rr, t :
        [i \in 1..Len(rr) |-> [e \in 1..Max(Len(h[i]), Len(t[i])) |->
            Neg(NormSq(VSub(VAdd(Pick(h[i], e), rr[i]), Pick(t[i], e))))]])

\* relation_projections(ids).view(-1, embedding_dim, relation_embedding_dim)
Projections(P, ids) ==
    With2(P, ids, LAMBDA p, x :
        [i \in 1..Len(x) |-> View(p[x[i]], embedding_dim, relation_embedding_dim)])
\* entity_embeddings(ids).view(-1, 1, embedding_dim), after the look-up
Unsqueeze(rows) == With(rows, LAMBDA x : [i \in 1..Len(x) |-> <<x[i]>>])

\* Each scoring method yields the scores and the tables as the look-ups
\* leave them; `defined` says every norm divided by was rational.
Undefined == [defined |-> FALSE]

\* score = -torch.norm(h_bot + r - t_bot, dim=-1) ** 2 of the renormed projections
Scored(E, R, hm, r, tm) ==
    IF RenormDefined(hm) /\ RenormDefined(tm)
    THEN [defined |-> TRUE, entity |-> E, relation |-> R,
          score |-> NegSquaredNorm(renorm(hm), r, renorm(tm))]
    ELSE Undefined

\* torch.renorm(h @ m_r, ...) and torch.renorm(t @ m_r, ...)
Project(E, R, h, r, t, m_r) ==
    With(m_r, LAMBDA m :
        With2(matmul(h, m), matmul(t, m), LAMBDA hm, tm : Scored(E, R, hm, r, tm)))

TransR_score_hrt(E, R, P, hrt_batch) ==
    IF ~LookupDefined(E, Column(hrt_batch, 1)) \/ ~LookupDefined(R, Column(hrt_batch, 2))
    THEN Undefined
    ELSE With2(embedding_renorm_(E, Column(hrt_batch, 1)),
               embedding_renorm_(R, Column(hrt_batch, 2)), LAMBDA E1, R1 :
         IF ~LookupDefined(E1, Column(hrt_batch, 3)) THEN Undefined
         ELSE With(embedding_renorm_(E1, Column(hrt_batch, 3)), LAMBDA E2 :
              Project(E2, R1,
                      Unsqueeze(Embedding(E1, Column(hrt_batch, 1))),
                      Embedding(R1, Column(hrt_batch, 2)),
                      Unsqueeze(Embedding(E2, Column(hrt_batch, 3))),
                      Projections(P, Column(hrt_batch, 2)))))

TransR_score_t(E, R, P, hr_batch) ==
    IF ~LookupDefined(E, Column(hr_batch, 1)) \/ ~LookupDefined(R, Column(hr_batch, 2))
    THEN Undefined
    ELSE With2(embedding_renorm_(E, Column(hr_batch, 1)),
               embedding_renorm_(R, Column(hr_batch, 2)), LAMBDA E1, R1 :
         Project(E1, R1,
                 Unsqueeze(Embedding(E1, Column(hr_batch, 1))),
                 Embedding(R1, Column(hr_batch, 2)),
                 <<E1>>,
                 Projections(P, Column(hr_batch, 2))))

TransR_score_h(E, R, P, rt_batch) ==
    IF ~LookupDefined(R, Column(rt_batch, 1)) \/ ~LookupDefined(E, Column(rt_batch, 2))
    THEN Undefined
    ELSE With2(embedding_renorm_(E, Column(rt_batch, 2)),
               embedding_renorm_(R, Column(rt_batch, 1)), LAMBDA E1, R1 :
         Project(E1, R1,
                 <<E1>>,
                 Embedding(R1, Column(rt_batch, 1)),
                 Unsqueeze(Embedding(E1, Column(rt_batch, 2))),
                 Projections(P, Column(rt_batch, 1))))

\* ------------------------------------------------------------------ RESCAL
\* relation_embeddings(ids).view(-1, embedding_dim, embedding_dim)
Matrices(R, ids) ==
    With2(R, ids, LAMBDA w, x :
        [i \in 1..Len(x) |-> View(w[x[i]], embedding_dim, embedding_dim)])
\* entity_embeddings(ids).view(-1, embedding_dim, 1)
Columns(rows) ==
    With(rows, LAMBDA x : [i \in 1..Len(x) |-> [k \in 1..Len(x[i]) |-> <<x[i][k]>>]])
\* weight.transpose(0, 1)
Transpose(W) == With(W, LAMBDA w : [k \in 1..Len(w[1]) |-> [e \in 1..Len(w) |-> w[e][k]]])
\* h @ r @ t
Bilinear(h, r, t) == matmul(matmul(h, r), t)
\* scores[:, :, 0] and scores[:, 0, :]
Slice3(scores) ==
    With(scores, LAMBDA s : [i \in 1..Len(s) |-> [n \in 1..Len(s[i]) |-> s[i][n][1]]])
Slice2(scores) == With(scores, LAMBDA s : [i \in 1..Len(s) |-> s[i][1]])

\* the head looked up where the tail belongs
RESCAL_score_hrt_head_twice(E, R, hrt_batch) ==
    Slice3(Bilinear(Unsqueeze(Embedding(E, Column(hrt_batch, 1))),
                    Matrices(R, Column(hrt_batch, 2)),
                    Columns(Embedding(E, Column(hrt_batch, 1)))))

RESCAL_score_hrt(E, R, hrt_batch) ==
    Slice3(Bilinear(Unsqueeze(Embedding(E, Column(hrt_batch, 1))),
                    Matrices(R, Column(hrt_batch, 2)),
                    Columns(Embedding(E, Column(hrt_batch, 3)))))

\* the weight viewed as (1, d, n) without the transpose
RESCAL_score_t_untransposed(E, R, hr_batch) ==
    Slice2(Bilinear(Unsqueeze(Embedding(E, Column(hr_batch, 1))),
                    Matrices(R, Column(hr_batch, 2)),
                    <<E>>))

RESCAL_score_t(E, R, hr_batch) ==
    Slice2(Bilinear(Unsqueeze(Embedding(E, Column(hr_batch, 1))),
                    Matrices(R, Column(hr_batch, 2)),
                    <<Transpose(E)>>))

RESCAL_score_h(E, R, rt_batch) ==
    Slice3(Bilinear(<<E>>,
                    Matrices(R, Column(rt_batch, 1)),
                    Columns(Embedding(E, Column(rt_batch, 2)))))

\* ----------------------------------------------------- values and batches
Q(n, d) == Frac(n, d)

\* rows embedding_xavier_uniform_ can leave in a fresh TransR entity or
\* relation table (each entry uniform around zero: a row's norm may exceed 1)
XavierRows == {<<Q(1, 1), Q(0, 1)>>, <<Q(0, 1), Q(1, 1)>>, <<Q(9, 10), Q(6, 5)>>}
\* rows a gradient step can leave in those tables
OptimizerRows == XavierRows \cup {<<Q(0, 1), Q(0, 1)>>, <<Q(3, 10), Q(2, 5)>>}
\* rows of the TransR projection table (default fill, then gradient steps)
ProjectionRows == {<<Q(3, 4), Q(1, 1), Q(1, 1), Q(3, 4)>>,
                   <<Q(1, 2), Q(0, 1), Q(0, 1), Q(1, 2)>>}
\* rows of the RESCAL tables (default fill, then gradient steps)
RescalEntityRows == {<<Q(1, 1), Q(2, 1)>>, <<Q(-1, 1), Q(3, 1)>>}
RescalRelationRows == {<<Q(1, 1), Q(0, 1), Q(0, 1), Q(1, 1)>>,
                       <<Q(1, 1), Q(2, 1), Q(3, 1), Q(-1, 1)>>}

Tables(rows, n) == [1..n -> rows]

Entities == 1..num_entities
Relations == 1..num_relations
Batches(S) == UNION {[1..b -> S] : b \in 1..MaxBatch}
HRT == {<<h, r, t>> : h \in Entities, r \in Relations, t \in Entities}
HR == {<<h, r>> : h \in Entities, r \in Relations}
RT == {<<r, t>> : r \in Relations, t \in Entities}

\* ------------------------------------------------------------ construction
\* The constructors are called without tables and end in
\* _init_weights_on_device(), which fills the absent ones.
TransR_new_entity == Tables(XavierRows, num_entities)
TransR_new_relation == {normalize(W) : W \in Tables(XavierRows, num_relations)}
TransR_new_projection == Tables(ProjectionRows, num_relations)
RESCAL_new_entity == Tables(RescalEntityRows, num_entities)
RESCAL_new_relation == Tables(RescalRelationRows, num_relations)

Called(op, batch, score) == [op |-> op, batch |-> batch, score |-> score]

Init ==
    /\ model \in {"RESCAL", "TransR"}
    /\ entity_embeddings \in
           IF model = "TransR" THEN TransR_new_entity ELSE RESCAL_new_entity
    /\ relation_embeddings \in
           IF model = "TransR" THEN TransR_new_relation ELSE RESCAL_new_relation
    /\ relation_projections \in
           IF model = "TransR" THEN TransR_new_projection ELSE {None}
    /\ regularizer_updates = 0
    /\ score_calls = 0
    /\ last = Called("__init__", <<>>, <<>>)

\* -------------------------------------------------------- TransR methods
TransR_init_empty_weights_ ==
    /\ model = "TransR"
    /\ entity_embeddings' \in
           IF entity_embeddings = None THEN TransR_new_entity ELSE {entity_embeddings}
    /\ relation_embeddings' \in
           IF relation_embeddings = None THEN TransR_new_relation
           ELSE {relation_embeddings}
    /\ relation_projections' \in
           IF relation_projections = None THEN TransR_new_projection
           ELSE {relation_projections}
    /\ last' = Called("init_empty_weights_", <<>>, <<>>)
    /\ UNCHANGED <<model, regularizer_updates, score_calls>>

TransR_clear_weights_ ==
    /\ model = "TransR"
    /\ entity_embeddings' = None
    /\ relation_embeddings' = None
    /\ last' = Called("clear_weights_", <<>>, <<>>)
    /\ UNCHANGED <<model, relation_projections, regularizer_updates, score_calls>>

TransR_post_parameter_update ==
    /\ model = "TransR"
    /\ entity_embeddings /= None
    /\ NormalizeDefined(entity_embeddings)
    /\ entity_embeddings' = normalize(entity_embeddings)
    /\ last' = Called("post_parameter_update", <<>>, <<>>)
    /\ UNCHANGED <<model, relation_embeddings, relation_projections,
                   regularizer_updates, score_calls>>

TransRReady ==
    /\ model = "TransR"
    /\ entity_embeddings /= None
    /\ relation_embeddings /= None
    /\ relation_projections /= None
    /\ score_calls < MaxTransRCalls

TransR_scored(op, batch, out) ==
    /\ out.defined
    /\ entity_embeddings' = out.entity
    /\ relation_embeddings' = out.relation
    /\ last' = Called(op, batch, out.score)
    /\ score_calls' = score_calls + 1
    /\ UNCHANGED <<model, relation_projections, regularizer_updates>>

TransR_score_hrt_call ==
    /\ TransRReady
    /\ \E hrt_batch \in Batches(HRT) :
           TransR_scored("score_hrt", hrt_batch,
               TransR_score_hrt(entity_embeddings, relation_embeddings,
                                relation_projections, hrt_batch))

TransR_score_t_call ==
    /\ TransRReady
    /\ \E hr_batch \in Batches(HR) :
           TransR_scored("score_t", hr_batch,
               TransR_score_t(entity_embeddings, relation_embeddings,
                              relation_projections, hr_batch))

TransR_score_h_call ==
    /\ TransRReady
    /\ \E rt_batch \in Batches(RT) :
           TransR_scored("score_h", rt_batch,
               TransR_score_h(entity_embeddings, relation_embeddings,
                              relation_projections, rt_batch))

\* -------------------------------------------------------- RESCAL methods
RESCAL_init_empty_weights_ ==
    /\ model = "RESCAL"
    /\ entity_embeddings' \in
           IF entity_embeddings = None THEN RESCAL_new_entity ELSE {entity_embeddings}
    /\ relation_embeddings' \in
           IF relation_embeddings = None THEN RESCAL_new_relation
           ELSE {relation_embeddings}
    /\ last' = Called("init_empty_weights_", <<>>, <<>>)
    /\ UNCHANGED <<model, relation_projections, regularizer_updates, score_calls>>

RESCAL_clear_weights_ ==
    /\ model = "RESCAL"
    /\ entity_embeddings' = None
    /\ relation_embeddings' = None
    /\ last' = Called("clear_weights_", <<>>, <<>>)
    /\ UNCHANGED <<model, relation_projections, regularizer_updates, score_calls>>

\* BaseModule.regularize_if_necessary(h, r, t): one accumulation call
regularize_if_necessary == regularizer_updates' = regularizer_updates + 1

RESCALReady ==
    /\ model = "RESCAL"
    /\ entity_embeddings /= None
    /\ relation_embeddings /= None
    /\ score_calls < MaxCalls

\* the scores go back to the caller; the look-ups leave the tables alone
RESCAL_return(op, batch, score) ==
    /\ last' = Called(op, batch, score)
    /\ score_calls' = score_calls + 1
    /\ UNCHANGED <<model, entity_embeddings, relation_embeddings, relation_projections>>

RESCAL_score_hrt_call ==
    /\ RESCALReady
    /\ regularize_if_necessary
    /\ \E hrt_batch \in Batches(HRT) :
           RESCAL_return("score_hrt", hrt_batch,
               RESCAL_score_hrt(entity_embeddings, relation_embeddings, hrt_batch))

RESCAL_score_t_call ==
    /\ RESCALReady
    /\ regularize_if_necessary
    /\ \E hr_batch \in Batches(HR) :
           RESCAL_return("score_t", hr_batch,
               RESCAL_score_t(entity_embeddings, relation_embeddings, hr_batch))

RESCAL_score_h_unregularized ==
    /\ RESCALReady
    /\ UNCHANGED regularizer_updates
    /\ \E rt_batch \in Batches(RT) :
           RESCAL_return("score_h", rt_batch,
               RESCAL_score_h(entity_embeddings, relation_embeddings, rt_batch))

RESCAL_score_h_call ==
    /\ RESCALReady
    /\ regularize_if_necessary
    /\ \E rt_batch \in Batches(RT) :
           RESCAL_return("score_h", rt_batch,
               RESCAL_score_h(entity_embeddings, relation_embeddings, rt_batch))

\* ------------------------------------------------------------ environment
\* A gradient step of the training collaborator rewrites a parameter row.
SetRow(W, e, v) == [W EXCEPT ![e] = v]

TransR_optimizer_step ==
    /\ model = "TransR"
    /\ entity_embeddings /= None
    /\ relation_embeddings /= None
    /\ relation_projections /= None
    /\ \/ \E e \in Entities : \E v \in OptimizerRows :
              /\ entity_embeddings' = SetRow(entity_embeddings, e, v)
              /\ UNCHANGED <<relation_embeddings, relation_projections>>
       \/ \E r \in Relations : \E v \in OptimizerRows :
              /\ relation_embeddings' = SetRow(relation_embeddings, r, v)
              /\ UNCHANGED <<entity_embeddings, relation_projections>>
       \/ \E r \in Relations : \E v \in ProjectionRows :
              /\ relation_projections' = SetRow(relation_projections, r, v)
              /\ UNCHANGED <<entity_embeddings, relation_embeddings>>
    /\ last' = Called("optimizer_step", <<>>, <<>>)
    /\ UNCHANGED <<model, regularizer_updates, score_calls>>

RESCAL_optimizer_step ==
    /\ model = "RESCAL"
    /\ entity_embeddings /= None
    /\ relation_embeddings /= None
    /\ \/ \E e \in Entities : \E v \in RescalEntityRows :
              /\ entity_embeddings' = SetRow(entity_embeddings, e, v)
              /\ UNCHANGED relation_embeddings
       \/ \E r \in Relations : \E v \in RescalRelationRows :
              /\ relation_embeddings' = SetRow(relation_embeddings, r, v)
              /\ UNCHANGED entity_embeddings
    /\ last' = Called("optimizer_step", <<>>, <<>>)
    /\ UNCHANGED <<model, relation_projections, regularizer_updates, score_calls>>

\* ----------------------------------------------------------- specifications
NextRESCAL ==
    \/ RESCAL_init_empty_weights_
    \/ RESCAL_clear_weights_
    \/ RESCAL_score_hrt_call
    \/ RESCAL_score_t_call
    \/ RESCAL_score_h_call
    \/ RESCAL_optimizer_step

NextTransR ==
    \/ TransR_init_empty_weights_
    \/ TransR_clear_weights_
    \/ TransR_post_parameter_update
    \/ TransR_score_hrt_call
    \/ TransR_score_t_call
    \/ TransR_score_h_call
    \/ TransR_optimizer_step

Next == NextRESCAL \/ NextTransR

\* a model of either class
Spec == Init /\ [][Next]_vars

\* a RESCAL model
InitRESCAL == Init /\ model = "RESCAL"
SpecRESCAL == InitRESCAL /\ [][NextRESCAL]_vars

\* ------------------------------------------------------------------ claims
ScoreOps == {"score_hrt", "score_t", "score_h"}

\* h * R * t written out: the sum over i, j of h[i] * R[i, j] * t[j]
BilinearForm(h, M, t) ==
    SumSeq([k \in 1..(embedding_dim * embedding_dim) |->
        Mul(Mul(h[((k - 1) \div embedding_dim) + 1], M[k]),
            t[((k - 1) % embedding_dim) + 1])])

\* the RESCAL scores of one triple in the three modes, on the current tables
RescalHRT(h, r, t) ==
    RESCAL_score_hrt(entity_embeddings, relation_embeddings, <<<<h, r, t>>>>)[1][1]
RescalT(h, r, t) ==
    RESCAL_score_t(entity_embeddings, relation_embeddings, <<<<h, r>>>>)[1][t]
RescalH(h, r, t) ==
    RESCAL_score_h(entity_embeddings, relation_embeddings, <<<<r, t>>>>)[1][h]
RescalForm(h, r, t) ==
    BilinearForm(entity_embeddings[h], relation_embeddings[r], entity_embeddings[t])

\* C3: RESCAL mode consistency.  Whatever batch a RESCAL scoring call was
\* given, each score it returned for a triple (h, r, t) is the score the two
\* other modes give that triple on the same tables, and is h * R * t.
C3_RescalModeConsistency ==
    (model = "RESCAL" /\ last.op \in ScoreOps) =>
        \A i \in 1..Len(last.batch) :
            CASE last.op = "score_hrt" ->
                    LET h == last.batch[i][1]
                        r == last.batch[i][2]
                        t == last.batch[i][3]
                    IN  /\ last.score[i] = <<RescalForm(h, r, t)>>
                        /\ last.score[i][1] = RescalT(h, r, t)
                        /\ last.score[i][1] = RescalH(h, r, t)
              [] last.op = "score_t" ->
                    LET h == last.batch[i][1]
                        r == last.batch[i][2]
                    IN  /\ Len(last.score[i]) = num_entities
                        /\ \A t \in Entities :
                              /\ last.score[i][t] = RescalHRT(h, r, t)
                              /\ last.score[i][t] = RescalH(h, r, t)
                              /\ last.score[i][t] = RescalForm(h, r, t)
              [] last.op = "score_h" ->
                    LET r == last.batch[i][1]
                        t == last.batch[i][2]
                    IN  /\ Len(last.score[i]) = num_entities
                        /\ \A h \in Entities :
                              /\ last.score[i][h] = RescalHRT(h, r, t)
                              /\ last.score[i][h] = RescalT(h, r, t)
                              /\ last.score[i][h] = RescalForm(h, r, t)

\* a score_t call on two different rows whose candidates score differently
C3_Witness ==
    /\ model = "RESCAL"
    /\ last.op = "score_t"
    /\ Len(last.batch) = MaxBatch
    /\ last.score[1] /= last.score[2]
    /\ last.score[1][1] /= last.score[1][2]
    /\ last.score[1][1] /= Zero

Scalars == {Q(0, 1), Q(2, 1), Q(-1, 1), Q(1, 2), Q(-3, 2)}
\* the table W with one more row: a times its row e
WithScaledRow(W, e, a) == Append(W, Scale(W[e], a))

\* C8: RESCAL bilinearity.  For each triple a score_hrt call scored, the
\* triple whose head embedding (or relation matrix, or tail embedding) is a
\* times the original one, the two other operands being the same rows,
\* scores a times what the call returned.
C8_RescalBilinear ==
    (model = "RESCAL" /\ last.op = "score_hrt") =>
        \A i \in 1..Len(last.batch) : \A a \in Scalars :
            LET h == last.batch[i][1]
                r == last.batch[i][2]
                t == last.batch[i][3]
                scaled == <<Mul(a, last.score[i][1])>>
            IN  /\ RESCAL_score_hrt(WithScaledRow(entity_embeddings, h, a),
                                    relation_embeddings,
                                    <<<<num_entities + 1, r, t>>>>) = <<scaled>>
                /\ RESCAL_score_hrt(entity_embeddings,
                                    WithScaledRow(relation_embeddings, r, a),
                                    <<<<h, num_relations + 1, t>>>>) = <<scaled>>
                /\ RESCAL_score_hrt(WithScaledRow(entity_embeddings, t, a),
                                    relation_embeddings,
                                    <<<<h, r, num_entities + 1>>>>) = <<scaled>>

\* a score_hrt call that returned a nonzero score for a triple with h = t
\* and another for a triple with h /= t
C8_Witness ==
    /\ model = "RESCAL"
    /\ last.op = "score_hrt"
    /\ Len(last.batch) = MaxBatch
    /\ last.batch[1][1] = last.batch[1][3]
    /\ last.batch[2][1] /= last.batch[2][3]
    /\ last.score[1][1] /= Zero
    /\ last.score[2][1] /= Zero

\* C5 as stated: after post_parameter_update every row of the entity table
\* has Euclidean norm exactly 1, a row that had norm 0 included.
C5_UnitNormAfterUpdate ==
    (model = "TransR" /\ last.op = "post_parameter_update") =>
        \A e \in Entities : NormSq(entity_embeddings[e]) = One

\* C5, amended: a step of post_parameter_update leaves a row of norm 0 as it
\* is and turns every other row into the vector of norm 1 that points the
\* same way (the old row is its old norm times the new row).
C5_NonzeroRowsNormalized ==
    [][(model = "TransR" /\ last'.op = "post_parameter_update") =>
          \A e \in Entities :
              IF NormSq(entity_embeddings[e]) = Zero
              THEN entity_embeddings'[e] = entity_embeddings[e]
              ELSE /\ NormSq(entity_embeddings'[e]) = One
                   /\ entity_embeddings[e] =
                          Scale(entity_embeddings'[e],
                                Sqrt(NormSq(entity_embeddings[e])))]_vars

\* post_parameter_update has run on a table with a row of norm 0 and a row
\* of another norm
C5_Witness ==
    /\ model = "TransR"
    /\ last.op = "post_parameter_update"
    /\ \E e \in Entities : NormSq(entity_embeddings[e]) = Zero
    /\ \E e \in Entities : NormSq(entity_embeddings[e]) = One

\* C10: table lifecycle.  A step of clear_weights_ leaves every table the
\* model owns absent (for TransR the projection table too), and a step of
\* init_empty_weights_ leaves every table present, keeping each table that
\* was present as it was.
C10_TableLifecycle ==
    [][/\ last'.op = "clear_weights_" =>
            /\ entity_embeddings' = None
            /\ relation_embeddings' = None
            /\ model = "TransR" => relation_projections' = None
       /\ last'.op = "init_empty_weights_" =>
            /\ entity_embeddings' /= None
            /\ relation_embeddings' /= None
            /\ model = "TransR" => relation_projections' /= None
            /\ entity_embeddings /= None => entity_embeddings' = entity_embeddings
            /\ relation_embeddings /= None =>
                   relation_embeddings' = relation_embeddings
            /\ relation_projections /= None =>
                   relation_projections' = relation_projections]_vars

\* the entity and relation ids a scoring call looks up through
\* nn.Embedding.forward
LookedUpEntities(op, batch) ==
    CASE op = "score_hrt" -> {batch[i][1] : i \in 1..Len(batch)}
                                 \cup {batch[i][3] : i \in 1..Len(batch)}
      [] op = "score_t" -> {batch[i][1] : i \in 1..Len(batch)}
      [] op = "score_h" -> {batch[i][2] : i \in 1..Len(batch)}
LookedUpRelations(op, batch) ==
    CASE op = "score_hrt" -> {batch[i][2] : i \in 1..Len(batch)}
      [] op = "score_t" -> {batch[i][2] : i \in 1..Len(batch)}
      [] op = "score_h" -> {batch[i][1] : i \in 1..Len(batch)}

\* new is old where old has norm at most 1, and else the vector of norm 1
\* that points the way old does
ClippedTo(old, new) ==
    IF Le(NormSq(old), One) THEN new = old
    ELSE NormSq(new) = One /\ old = Scale(new, Sqrt(NormSq(old)))

\* C4 as stated: a scoring step of either model leaves the entity, relation
\* and projection tables as they were.
C4_ScoringLeavesTables ==
    [][last'.op \in ScoreOps =>
          /\ entity_embeddings' = entity_embeddings
          /\ relation_embeddings' = relation_embeddings
          /\ relation_projections' = relation_projections]_vars

\* C4, amended: a scoring step leaves the projection table and both RESCAL
\* tables as they were; in the TransR entity and relation tables it replaces
\* each row that the call looks up and that has norm above 1 by that row
\* rescaled to norm 1, and leaves every other row as it was.
C4_ScoringClipsLookedUpRows ==
    [][last'.op \in ScoreOps =>
          /\ relation_projections' = relation_projections
          /\ model = "RESCAL" =>
                /\ entity_embeddings' = entity_embeddings
                /\ relation_embeddings' = relation_embeddings
          /\ model = "TransR" =>
                /\ DOMAIN entity_embeddings' = DOMAIN entity_embeddings
                /\ DOMAIN relation_embeddings' = DOMAIN relation_embeddings
                /\ \A e \in Entities :
                      IF e \in LookedUpEntities(last'.op, last'.batch)
                      THEN ClippedTo(entity_embeddings[e], entity_embeddings'[e])
                      ELSE entity_embeddings'[e] = entity_embeddings[e]
                /\ \A r \in Relations :
                      IF r \in LookedUpRelations(last'.op, last'.batch)
                      THEN ClippedTo(relation_embeddings[r], relation_embeddings'[r])
                      ELSE relation_embeddings'[r] = relation_embeddings[r]]_vars

\* a TransR score_t call has looked up one entity only; the other entity's
\* row still has norm above 1
C4_Witness ==
    /\ model = "TransR"
    /\ last.op = "score_t"
    /\ \E e \in Entities :
          /\ e \in LookedUpEntities(last.op, last.batch)
          /\ NormSq(entity_embeddings[e]) = One
          /\ entity_embeddings[e] \notin XavierRows
    /\ \E e \in Entities :
          /\ e \notin LookedUpEntities(last.op, last.batch)
          /\ ~Le(NormSq(entity_embeddings[e]), One)

\* C6: TransR entity norm constraint.  Every entity vector a scoring call
\* has used has norm at most 1: the rows it looked up and, for score_t and
\* score_h, every row of the entity table, which is the candidate operand
\* (the table as the call leaves it is the table the operand views).
C6_EntityNormAtMostOne ==
    (model = "TransR" /\ last.op \in ScoreOps) =>
        /\ \A e \in LookedUpEntities(last.op, last.batch) :
              Le(NormSq(entity_embeddings[e]), One)
        /\ last.op \in {"score_t", "score_h"} =>
              \A e \in Entities : Le(NormSq(entity_embeddings[e]), One)

\* a vector times the projection matrix held flat in row m of the table
ProjectRow(v, m) ==
    [j \in 1..relation_embedding_dim |->
        SumSeq([k \in 1..embedding_dim |->
            Mul(v[k], m[(k - 1) * relation_embedding_dim + j])])]
\* clip of one projected vector: unchanged at norm at most 1, else rescaled
\* to norm 1
ClipVector(v) ==
    IF Le(NormSq(v), One) THEN v ELSE Scale(v, Div(One, Sqrt(NormSq(v))))
ClipVectorDefined(v) == Le(NormSq(v), One) \/ IsSquare(NormSq(v))
\* -||clip(h * M_r) + r - clip(t * M_r)||^2
ClippedResidualDefined(h, r, t, m) ==
    ClipVectorDefined(ProjectRow(h, m)) /\ ClipVectorDefined(ProjectRow(t, m))
ClippedResidual(h, r, t, m) ==
    Neg(NormSq(VSub(VAdd(ClipVector(ProjectRow(h, m)), r),
                    ClipVector(ProjectRow(t, m)))))

\* C2: TransR scoring formula.  Each score a score_hrt call returned for a
\* row (h, r, t) is -||clip(h * M_r) + r - clip(t * M_r)||^2, clip acting on
\* each projected vector by itself (stated for the rows on which the norms
\* clip divides by are rational).
C2_ScoreIsClippedResidual ==
    (model = "TransR" /\ last.op = "score_hrt") =>
        \A i \in 1..Len(last.batch) :
            LET h == entity_embeddings[last.batch[i][1]]
                r == relation_embeddings[last.batch[i][2]]
                t == entity_embeddings[last.batch[i][3]]
                m == relation_projections[last.batch[i][2]]
            IN  ClippedResidualDefined(h, r, t, m) =>
                    last.score[i] = <<ClippedResidual(h, r, t, m)>>

\* the scores of a batch of one row, on the current tables
TransRAlone(op, row) ==
    CASE op = "score_hrt" ->
            TransR_score_hrt(entity_embeddings, relation_embeddings,
                             relation_projections, <<row>>)
      [] op = "score_t" ->
            TransR_score_t(entity_embeddings, relation_embeddings,
                           relation_projections, <<row>>)
      [] op = "score_h" ->
            TransR_score_h(entity_embeddings, relation_embeddings,
                           relation_projections, <<row>>)
RescalAlone(op, row) ==
    CASE op = "score_hrt" ->
            RESCAL_score_hrt(entity_embeddings, relation_embeddings, <<row>>)
      [] op = "score_t" ->
            RESCAL_score_t(entity_embeddings, relation_embeddings, <<row>>)
      [] op = "score_h" ->
            RESCAL_score_h(entity_embeddings, relation_embeddings, <<row>>)

\* C9: no inter-row dependency.  The scores a scoring call of either model
\* returned for row i of its batch are the scores that row gets as a batch
\* of size one on the tables the call left.
C9_RowsScoredIndependently ==
    last.op \in ScoreOps =>
        \A i \in 1..Len(last.batch) :
            IF model = "RESCAL"
            THEN RescalAlone(last.op, last.batch[i]) = <<last.score[i]>>
            ELSE TransRAlone(last.op, last.batch[i]).defined =>
                    TransRAlone(last.op, last.batch[i]).score = <<last.score[i]>>

\* the TransR scores of one triple in the three modes, on the current tables
TransRHRT(h, r, t) == TransRAlone("score_hrt", <<h, r, t>>)
TransRT(h, r) == TransRAlone("score_t", <<h, r>>)
TransRH(r, t) == TransRAlone("score_h", <<r, t>>)

\* C1: TransR mode consistency.  Whatever batch a TransR scoring call was
\* given, each score it returned for a triple (h, r, t) is the score the two
\* other modes give that triple on the tables the call left.
C1_TransRModeConsistency ==
    (model = "TransR" /\ last.op \in ScoreOps) =>
        \A i \in 1..Len(last.batch) :
            CASE last.op = "score_hrt" ->
                    LET h == last.batch[i][1]
                        r == last.batch[i][2]
                        t == last.batch[i][3]
                    IN  /\ TransRT(h, r).defined =>
                              last.score[i][1] = TransRT(h, r).score[1][t]
                        /\ TransRH(r, t).defined =>
                              last.score[i][1] = TransRH(r, t).score[1][h]
              [] last.op = "score_t" ->
                    LET h == last.batch[i][1]
                        r == last.batch[i][2]
                    IN  \A t \in Entities :
                          /\ TransRHRT(h, r, t).defined =>
                                last.score[i][t] = TransRHRT(h, r, t).score[1][1]
                          /\ TransRH(r, t).defined =>
                                last.score[i][t] = TransRH(r, t).score[1][h]
              [] last.op = "score_h" ->
                    LET r == last.batch[i][1]
                        t == last.batch[i][2]
                    IN  \A h \in Entities :
                          /\ TransRHRT(h, r, t).defined =>
                                last.score[i][h] = TransRHRT(h, r, t).score[1][1]
                          /\ TransRT(h, r).defined =>
                                last.score[i][h] = TransRT(h, r).score[1][t]

====
